---- MODULE Spec2Model ----
(***************************************************************************)
(* Two FastAPI services over an in-memory list of books.                   *)
(*   project1/books.py : records are dicts, keyed by title                 *)
(*   project2/books.py : records are Book objects, keyed by id             *)
(* A state is the module-level list BOOKS of one running service together  *)
(* with the last HTTP request it handled and the response it gave.         *)
(***************************************************************************)
EXTENDS Integers, Sequences, FiniteSets, TLC

VARIABLES
    service,    \* which application this process runs: "project1" or "project2"
    BOOKS,      \* the module-level list BOOKS of that application
    request,    \* the last HTTP request handled
    response,   \* the handler it was dispatched to, the status and the body
    tasks,      \* SpecAsync only: the requests in flight on the event loop
    running     \* SpecAsync only: the task whose handler the loop is executing

vars == <<service, BOOKS, request, response, tasks, running>>

\* ------------------------------------------------------------------ bounds

\* Longest list the create handlers are allowed to build.
MaxLen == 8
\* Largest identifier project2's create handler is allowed to assign.
MaxId == 7
\* Requests in flight together in SpecAsync.
MaxTasks == 3

\* ------------------------------------------------------- values and helpers

\* Python's None / an optional value: the empty sequence, or <<v>>.
None == <<>>
Some(v) == <<v>>

\* list.pop(i) for a 1-based position i of s.
RemoveAt(s, i) == [j \in 1..(Len(s) - 1) |-> IF j < i THEN s[j] ELSE s[j + 1]]

\* No request, no response: the state after import, before the first request.
NoRequest == [method |-> "", path |-> <<>>, query |-> None, body |-> None]
NoResponse == [handler |-> "", status |-> 0, kind |-> "none", body |-> <<>>]

\* A response: the handler that ran, the HTTP status, the kind of JSON body
\* ("null", "object", "list", "count", "detail", "none") and its content.
Resp(h, st, k, b) == [handler |-> h, status |-> st, kind |-> k, body |-> b]

\* A request path is the sequence of its segments; a trailing slash is a
\* last, empty segment: /books/ is <<"books", "">>.
Req(m, p, q, b) == [method |-> m, path |-> p, query |-> q, body |-> b]

\* ------------------------------------------------------------------ routing

\* One route of a route table: the method, the path pattern and the endpoint.
\* A pattern segment is a literal or a {parameter}.
Lit(s) == [dyn |-> FALSE, name |-> s]
Dyn(s) == [dyn |-> TRUE, name |-> s]
Route(m, pat, h) == [method |-> m, pattern |-> pat, handler |-> h]

\* A {parameter} matches one non-empty segment ([^/]+), a literal itself.
SegmentMatches(seg, s) == IF seg.dyn THEN s # "" ELSE s = seg.name

RouteMatches(r, req) ==
    /\ r.method = req.method
    /\ Len(r.pattern) = Len(req.path)
    /\ \A i \in 1..Len(r.pattern) : SegmentMatches(r.pattern[i], req.path[i])

\* The routes in registration order; the first one that matches wins.
RECURSIVE FirstMatch(_, _, _)
FirstMatch(routes, req, i) ==
    IF i > Len(routes) THEN ""
    ELSE IF RouteMatches(routes[i], req) THEN routes[i].handler
    ELSE FirstMatch(routes, req, i + 1)

\* ================================================================ project1

SeedBooks1 == <<
    [title |-> "Title One", author |-> "Author One", category |-> "science"],
    [title |-> "Title Two", author |-> "Author Two", category |-> "science"],
    [title |-> "Title Three", author |-> "Author Three", category |-> "history"],
    [title |-> "Title Four", author |-> "Author Four", category |-> "math"],
    [title |-> "Title Five", author |-> "Author Five", category |-> "math"],
    [title |-> "Title Six", author |-> "Author Two", category |-> "math"] >>

\* str.casefold() on the strings the model uses.
CaseFold(s) ==
    CASE s = "Title One" -> "title one"
      [] s = "TITLE ONE" -> "title one"
      [] s = "Title Two" -> "title two"
      [] s = "Title Three" -> "title three"
      [] s = "Title Four" -> "title four"
      [] s = "Title Five" -> "title five"
      [] s = "Title Six" -> "title six"
      [] s = "Title Seven" -> "title seven"
      [] s = "Author One" -> "author one"
      [] s = "Author Two" -> "author two"
      [] s = "Author Three" -> "author three"
      [] s = "Author Four" -> "author four"
      [] s = "Author Five" -> "author five"
      [] s = "Author Nine" -> "author nine"
      [] s = "MATH" -> "math"
      [] s = "Math" -> "math"
      [] OTHER -> s

\* dict.get(key): None when the key is absent.
Get(book, key) == IF key \in DOMAIN book THEN Some(book[key]) ELSE None

\* book.get(key).casefold() == val.casefold(): "error" is the AttributeError
\* of None.casefold().
KeyMatches(book, key, val) ==
    IF Get(book, key) = None THEN "error"
    ELSE IF CaseFold(book[key]) = CaseFold(val) THEN "yes" ELSE "no"

\* The route table as it would be with the generic dynamic route declared
\* before the static ones.
Routes1_dynamic_first == <<
    Route("GET", <<Lit("books"), Lit("")>>, "get_all_book"),
    Route("GET", <<Lit("books"), Dyn("book_title")>>, "get_books_by_title"),
    Route("GET", <<Lit("books"), Lit("count")>>, "count_books"),
    Route("GET", <<Lit("books"), Lit("by_author"), Dyn("author")>>, "get_books_by_author"),
    Route("GET", <<Lit("author"), Dyn("author"), Lit("")>>, "read_author_category_by_query"),
    Route("POST", <<Lit("books"), Lit("create_book")>>, "create_book"),
    Route("PUT", <<Lit("books"), Lit("update_book")>>, "update_book"),
    Route("DELETE", <<Lit("books"), Lit("delete_book"), Dyn("book_title")>>, "delete_book") >>

Routes1 == <<
    Route("GET", <<Lit("books"), Lit("")>>, "get_all_book"),
    Route("GET", <<Lit("books"), Lit("count")>>, "count_books"),
    Route("GET", <<Lit("books"), Lit("by_author"), Dyn("author")>>, "get_books_by_author"),
    Route("GET", <<Lit("books"), Dyn("book_title")>>, "get_books_by_title"),
    Route("GET", <<Lit("author"), Dyn("author"), Lit("")>>, "read_author_category_by_query"),
    Route("POST", <<Lit("books"), Lit("create_book")>>, "create_book"),
    Route("PUT", <<Lit("books"), Lit("update_book")>>, "update_book"),
    Route("DELETE", <<Lit("books"), Lit("delete_book"), Dyn("book_title")>>, "delete_book") >>

Dispatch1(req) == FirstMatch(Routes1, req, 1)

\* The strings requests carry.
TitleInputs == {"title one", "Title Two", "Title Seven"}
AuthorInputs == {"author two", "Author Nine"}
CategoryInputs == {"", "MATH", "science"}

\* Bodies of POST /books/create_book: any JSON object is accepted.
NewBooks1 == {
    [title |-> "TITLE ONE", author |-> "Author Two", category |-> "Math"],
    [author |-> "Author Nine", category |-> "math"] }

\* Bodies of PUT /books/update_book: any dict[str, str].
UpdatedBooks1 == {
    [title |-> "title one", author |-> "Author Nine", category |-> "MATH"],
    [title |-> "Title Two"],
    [author |-> "Author Nine"] }

Requests1 ==
    {Req("GET", <<"books", "">>, q, None) : q \in {None} \cup {Some(c) : c \in CategoryInputs}}
    \cup {Req("GET", <<"books", "count">>, None, None)}
    \cup {Req("GET", <<"books", "by_author">>, None, None)}
    \cup {Req("GET", <<"books", "by_author", a>>, None, None) : a \in AuthorInputs}
    \cup {Req("GET", <<"books", t>>, None, None) : t \in TitleInputs}
    \cup {Req("GET", <<"author", a, "">>, Some(c), None) :
             a \in AuthorInputs, c \in CategoryInputs \ {""}}
    \cup {Req("POST", <<"books", "create_book">>, None, Some(b)) : b \in NewBooks1}
    \cup {Req("PUT", <<"books", "update_book">>, None, Some(b)) : b \in UpdatedBooks1}
    \cup {Req("DELETE", <<"books", "delete_book", t>>, None, None) : t \in TitleInputs}

\* The scan of get_all_book and get_books_by_author: the records whose key
\* matches, in list order; ok is FALSE when a record raised.
RECURSIVE FilterBy(_, _, _, _, _)
FilterBy(books, key, val, i, acc) ==
    IF i > Len(books) THEN [ok |-> TRUE, items |-> acc]
    ELSE LET m == KeyMatches(books[i], key, val)
         IN  IF m = "error" THEN [ok |-> FALSE, items |-> <<>>]
             ELSE FilterBy(books, key, val, i + 1,
                           IF m = "yes" THEN Append(acc, books[i]) ELSE acc)

\* The scan of read_author_category_by_query: `and` evaluates the category
\* only for a record whose author matched.
RECURSIVE FilterByAuthorCategory(_, _, _, _, _)
FilterByAuthorCategory(books, author, category, i, acc) ==
    IF i > Len(books) THEN [ok |-> TRUE, items |-> acc]
    ELSE LET a == KeyMatches(books[i], "author", author)
             c == KeyMatches(books[i], "category", category)
         IN  IF a = "error" \/ (a = "yes" /\ c = "error")
             THEN [ok |-> FALSE, items |-> <<>>]
             ELSE FilterByAuthorCategory(books, author, category, i + 1,
                      IF a = "yes" /\ c = "yes" THEN Append(acc, books[i]) ELSE acc)

\* The scan of get_books_by_title: the first record whose title matches.
RECURSIVE FindByTitle(_, _, _)
FindByTitle(books, title, i) ==
    IF i > Len(books) THEN [ok |-> TRUE, found |-> None]
    ELSE LET m == KeyMatches(books[i], "title", title)
         IN  IF m = "error" THEN [ok |-> FALSE, found |-> None]
             ELSE IF m = "yes" THEN [ok |-> TRUE, found |-> Some(books[i])]
             ELSE FindByTitle(books, title, i + 1)

\* The loop of project1's update_book: every record whose title matches is
\* replaced; a record or a body without a title raises at that index, and
\* the replacements made before it stay.
RECURSIVE UpdateScan1(_, _, _)
UpdateScan1(books, updated_book, i) ==
    IF i > Len(books) THEN [ok |-> TRUE, books |-> books]
    ELSE IF Get(books[i], "title") = None \/ Get(updated_book, "title") = None
    THEN [ok |-> FALSE, books |-> books]
    ELSE IF CaseFold(books[i]["title"]) = CaseFold(updated_book["title"])
    THEN UpdateScan1([books EXCEPT ![i] = updated_book], updated_book, i + 1)
    ELSE UpdateScan1(books, updated_book, i + 1)

\* The loop of project1's delete_book: pop the first match and break.
RECURSIVE DeleteScan1(_, _, _)
DeleteScan1(books, title, i) ==
    IF i > Len(books) THEN [ok |-> TRUE, books |-> books]
    ELSE LET m == KeyMatches(books[i], "title", title)
         IN  IF m = "error" THEN [ok |-> FALSE, books |-> books]
             ELSE IF m = "yes" THEN [ok |-> TRUE, books |-> RemoveAt(books, i)]
             ELSE DeleteScan1(books, title, i + 1)

\* An unhandled exception in a handler: 500 Internal Server Error.
ServerError(h) == Resp(h, 500, "detail", <<"Internal Server Error">>)

\* The requests the router hands to each endpoint.
Inbox1 == [h \in {r.handler : r \in {Routes1[i] : i \in 1..Len(Routes1)}} |->
              {req \in Requests1 : Dispatch1(req) = h}]

Routed1(h) == IF service = "project1" THEN Inbox1[h] ELSE {}

Handled1(req, books, resp) ==
    /\ request' = req
    /\ BOOKS' = books
    /\ response' = resp
    /\ UNCHANGED <<service, tasks, running>>

get_all_book ==
    \E req \in Routed1("get_all_book") :
        LET category == req.query
            r == FilterBy(BOOKS, "category", category[1], 1, <<>>)
        IN  Handled1(req, BOOKS,
                IF category # None /\ category[1] # ""
                THEN IF r.ok THEN Resp("get_all_book", 200, "list", r.items)
                     ELSE ServerError("get_all_book")
                ELSE Resp("get_all_book", 200, "list", BOOKS))

count_books ==
    \E req \in Routed1("count_books") :
        Handled1(req, BOOKS,
                 Resp("count_books", 200, "count", <<Len(BOOKS)>>))

get_books_by_author ==
    \E req \in Routed1("get_books_by_author") :
        LET r == FilterBy(BOOKS, "author", req.path[3], 1, <<>>)
        IN  Handled1(req, BOOKS,
                IF r.ok THEN Resp("get_books_by_author", 200, "list", r.items)
                ELSE ServerError("get_books_by_author"))

get_books_by_title ==
    \E req \in Routed1("get_books_by_title") :
        LET r == FindByTitle(BOOKS, req.path[2], 1)
        IN  Handled1(req, BOOKS,
                IF ~r.ok THEN ServerError("get_books_by_title")
                ELSE IF r.found = None
                THEN Resp("get_books_by_title", 200, "null", <<>>)
                ELSE Resp("get_books_by_title", 200, "object", r.found))

read_author_category_by_query ==
    \E req \in Routed1("read_author_category_by_query") :
        LET r == FilterByAuthorCategory(BOOKS, req.path[2], req.query[1], 1, <<>>)
        IN  Handled1(req, BOOKS,
                IF r.ok THEN Resp("read_author_category_by_query", 200, "list", r.items)
                ELSE ServerError("read_author_category_by_query"))

p1_create_book ==
    \E req \in Routed1("create_book") :
        /\ Len(BOOKS) < MaxLen
        /\ Handled1(req, Append(BOOKS, req.body[1]),
                    Resp("create_book", 200, "null", <<>>))

p1_update_book ==
    \E req \in Routed1("update_book") :
        LET r == UpdateScan1(BOOKS, req.body[1], 1)
        IN  Handled1(req, r.books,
                IF r.ok THEN Resp("update_book", 200, "null", <<>>)
                ELSE ServerError("update_book"))

p1_delete_book ==
    \E req \in Routed1("delete_book") :
        LET r == DeleteScan1(BOOKS, req.path[3], 1)
        IN  Handled1(req, r.books,
                IF r.ok THEN Resp("delete_book", 200, "null", <<>>)
                ELSE ServerError("delete_book"))

Init1 ==
    /\ service = "project1"
    /\ BOOKS = SeedBooks1
    /\ request = NoRequest
    /\ response = NoResponse
    /\ tasks = <<>>
    /\ running = 0

Next1 ==
    \/ get_all_book
    \/ count_books
    \/ get_books_by_author
    \/ get_books_by_title
    \/ read_author_category_by_query
    \/ p1_create_book
    \/ p1_update_book
    \/ p1_delete_book

\* ================================================================ project2

\* Book(id, title, author, description, rating, published_year)
Book(id, title, author, description, rating, published_year) ==
    [id |-> id, title |-> title, author |-> author, description |-> description,
     rating |-> rating, published_year |-> published_year]

SeedBooks2 == <<
    Book(1, "Book1", "Author1", "Description1", 5, 2001),
    Book(2, "Book2", "Author2", "Description2", 4, 2001),
    Book(3, "Book3", "Author3", "Description3", 3, 2002),
    Book(4, "Book4", "Author4", "Description4", 5, 2002),
    Book(5, "Book5", "Author5", "Description5", 2, 2001),
    Book(6, "Book6", "Author6", "Description6", 1, 2002) >>

Routes2 == <<
    Route("GET", <<Lit("books"), Lit("all_books")>>, "get_all_books"),
    Route("GET", <<Lit("books"), Lit("")>>, "read_book_by_rating"),
    Route("GET", <<Lit("books"), Lit("year_filer"), Lit("")>>, "read_book_by_published_year"),
    Route("GET", <<Lit("books"), Dyn("book_id")>>, "read_book_by_id"),
    Route("POST", <<Lit("create_book"), Lit("")>>, "create_book"),
    Route("PUT", <<Lit("books"), Lit("update_book"), Lit("")>>, "update_book"),
    Route("DELETE", <<Lit("books"), Dyn("book_id")>>, "delete_book") >>

Dispatch2(req) == FirstMatch(Routes2, req, 1)

\* The decimal numerals a path segment may be.
Numerals == <<"1", "2", "3", "4", "5", "6", "7", "8", "9", "10", "11", "12">>

\* The conversion of a path segment to int: None when it is no numeral (the
\* framework then answers 422 without calling the handler's body).
ParseInt(s) ==
    IF s = "0" THEN Some(0)
    ELSE IF \E n \in 1..Len(Numerals) : Numerals[n] = s
    THEN Some(CHOOSE n \in 1..Len(Numerals) : Numerals[n] = s)
    ELSE None

\* book_id: int = Path(gt=0)
ValidBookId(s) == ParseInt(s) # None /\ ParseInt(s)[1] > 0

\* Identifiers a request body carries: BookRequest.id is optional and
\* unconstrained.
RequestIds == {None, Some(3), Some(7)}

\* Validated BookRequest bodies.
BookRequests ==
    {[id |-> i, title |-> "A new book", author |-> "Author 1",
      description |-> "A description for a book", rating |-> 5,
      published_year |-> 2025] : i \in RequestIds}

RatingInputs == {0, 5}
YearInputs == {2001, 2025}
\* Path segments of GET /books/{book_id} and of DELETE /books/{book_id}.
ReadSegments == {"0", "3", "7"}
DeleteSegments == {"0"} \cup {Numerals[n] : n \in 1..MaxId}

Requests2 ==
    {Req("GET", <<"books", "all_books">>, None, None)}
    \cup {Req("GET", <<"books", "">>, Some(r), None) : r \in RatingInputs}
    \cup {Req("GET", <<"books", "year_filer", "">>, Some(y), None) : y \in YearInputs}
    \cup {Req("GET", <<"books", "year_filer">>, Some(y), None) : y \in YearInputs}
    \cup {Req("GET", <<"books", s>>, None, None) : s \in ReadSegments}
    \cup {Req("POST", <<"create_book", "">>, None, Some(b)) : b \in BookRequests}
    \cup {Req("PUT", <<"books", "update_book", "">>, None, Some(b)) : b \in BookRequests}
    \cup {Req("DELETE", <<"books", s>>, None, None) : s \in DeleteSegments}

\* Book(**book_request.model_dump()) with the identifier set to id.
WithId(book_request, id) == [book_request EXCEPT !.id = id]

\* find_book_id as it would be if it kept an identifier the body supplies.
find_book_id_keeps_supplied(books, book) ==
    [book EXCEPT !.id = IF book.id # None THEN book.id[1]
                        ELSE IF Len(books) > 0 THEN books[Len(books)].id + 1 ELSE 1]

\* find_book_id as it would be if it counted the records: len(BOOKS) + 1.
find_book_id_by_len(books, book) == [book EXCEPT !.id = Len(books) + 1]

\* find_book_id as it would be if it read the first record: BOOKS[0].id + 1.
find_book_id_after_first(books, book) ==
    [book EXCEPT !.id = IF Len(books) > 0 THEN books[1].id + 1 ELSE 1]

\* find_book_id: the identifier after the last record's, or 1.
find_book_id(books, book) ==
    [book EXCEPT !.id = IF Len(books) > 0 THEN books[Len(books)].id + 1 ELSE 1]

\* The loops of read_book_by_rating and read_book_by_published_year.
RECURSIVE FilterByInt(_, _, _, _, _)
FilterByInt(books, field, val, i, acc) ==
    IF i > Len(books) THEN acc
    ELSE FilterByInt(books, field, val, i + 1,
                     IF books[i][field] = val THEN Append(acc, books[i]) ELSE acc)

\* The loop of read_book_by_id, update_book and delete_book: the index of
\* the first record whose id equals the given (optional) id, or 0.
RECURSIVE IndexOfId(_, _, _)
IndexOfId(books, id, i) ==
    IF i > Len(books) THEN 0
    ELSE IF Some(books[i].id) = id THEN i
    ELSE IndexOfId(books, id, i + 1)

\* update_book as it would be if it removed the old record and appended the
\* new one.
UpdateBooks2_moves_to_end(books, book_request) ==
    LET i == IndexOfId(books, book_request.id, 1)
    IN  IF i = 0 THEN books
        ELSE Append(RemoveAt(books, i), [book_request EXCEPT !.id = book_request.id[1]])

\* project2's update_book: BOOKS[i] = Book(**book_request.model_dump()) at
\* the first record with the request's id.
UpdateBooks2(books, book_request) ==
    LET i == IndexOfId(books, book_request.id, 1)
    IN  IF i = 0 THEN books
        ELSE [books EXCEPT ![i] = [book_request EXCEPT !.id = book_request.id[1]]]

\* project2's delete_book: BOOKS.pop(i) at the first record with the id.
DeleteBooks2(books, book_id) ==
    LET i == IndexOfId(books, Some(book_id), 1)
    IN  IF i = 0 THEN books ELSE RemoveAt(books, i)

NotFound(h, detail) == Resp(h, 404, "detail", <<detail>>)
Unprocessable(h) == Resp(h, 422, "detail", <<"validation error">>)

\* The requests the router hands to each endpoint.
Inbox2 == [h \in {r.handler : r \in {Routes2[i] : i \in 1..Len(Routes2)}} |->
              {req \in Requests2 : Dispatch2(req) = h}]

Routed2(h) == IF service = "project2" THEN Inbox2[h] ELSE {}

Handled2(req, books, resp) ==
    /\ request' = req
    /\ BOOKS' = books
    /\ response' = resp
    /\ UNCHANGED <<service, tasks, running>>

get_all_books ==
    \E req \in Routed2("get_all_books") :
        Handled2(req, BOOKS,
                 Resp("get_all_books", 200, "list", BOOKS))

read_book_by_rating ==
    \E req \in Routed2("read_book_by_rating") :
        Handled2(req, BOOKS,
                 Resp("read_book_by_rating", 200, "list",
                      FilterByInt(BOOKS, "rating", req.query[1], 1, <<>>)))

read_book_by_published_year ==
    \E req \in Routed2("read_book_by_published_year") :
        Handled2(req, BOOKS,
                 Resp("read_book_by_published_year", 200, "list",
                      FilterByInt(BOOKS, "published_year", req.query[1], 1, <<>>)))

read_book_by_id ==
    \E req \in Routed2("read_book_by_id") :
        LET i == IndexOfId(BOOKS, ParseInt(req.path[2]), 1)
        IN  Handled2(req, BOOKS,
                IF ~ValidBookId(req.path[2]) THEN Unprocessable("read_book_by_id")
                ELSE IF i = 0 THEN NotFound("read_book_by_id", "Item not found")
                ELSE Resp("read_book_by_id", 200, "object", <<BOOKS[i]>>))

p2_create_book ==
    \E req \in Routed2("create_book") :
        /\ Len(BOOKS) < MaxLen
        /\ find_book_id(BOOKS, req.body[1]).id <= MaxId
        /\ Handled2(req, Append(BOOKS, find_book_id(BOOKS, req.body[1])),
                    Resp("create_book", 201, "null", <<>>))

p2_update_book ==
    \E req \in Routed2("update_book") :
        Handled2(req, UpdateBooks2(BOOKS, req.body[1]),
                 IF IndexOfId(BOOKS, req.body[1].id, 1) = 0
                 THEN NotFound("update_book", "Item not found.")
                 ELSE Resp("update_book", 204, "none", <<>>))

p2_delete_book ==
    \E req \in Routed2("delete_book") :
        LET book_id == ParseInt(req.path[2])
        IN  Handled2(req, IF ValidBookId(req.path[2]) THEN DeleteBooks2(BOOKS, book_id[1]) ELSE BOOKS,
                IF ~ValidBookId(req.path[2]) THEN Unprocessable("delete_book")
                ELSE IF IndexOfId(BOOKS, book_id, 1) = 0
                THEN NotFound("delete_book", "Item not found.")
                ELSE Resp("delete_book", 204, "none", <<>>))

Init2 ==
    /\ service = "project2"
    /\ BOOKS = SeedBooks2
    /\ request = NoRequest
    /\ response = NoResponse
    /\ tasks = <<>>
    /\ running = 0

Next2 ==
    \/ get_all_books
    \/ read_book_by_rating
    \/ read_book_by_published_year
    \/ read_book_by_id
    \/ p2_create_book
    \/ p2_update_book
    \/ p2_delete_book

\* ------------------------------------------------------ the two services

\* A process runs one of the two applications, each handler to completion.
Init == Init1 \/ Init2

Next == Next1 \/ Next2

Spec == Init /\ [][Next]_vars

\* ============================================== requests in flight together

(***************************************************************************)
(* SpecAsync: the write handlers of either service as the event loop runs  *)
(* them, one statement at a time, with several requests in flight.  Every  *)
(* handler is an `async def`; the loop runs a coroutine until it awaits,   *)
(* and only then may run another one.                                      *)
(***************************************************************************)

TaskIds == 1..MaxTasks

\* The write requests a client may have in flight: the handler, the key of
\* a delete (a title in project1, an id in project2) and the body.
WriteRequests1 ==
    {[op |-> "create_book", key |-> None, body |-> Some(b)] : b \in NewBooks1}
    \cup {[op |-> "update_book", key |-> None, body |-> Some(b)] :
             b \in {u \in UpdatedBooks1 : "category" \in DOMAIN u}}
    \cup {[op |-> "delete_book", key |-> Some(t), body |-> None] :
             t \in {"title one", "Title Two"}}

WriteRequests2 ==
    {[op |-> "create_book", key |-> None, body |-> Some(b)] :
        b \in {r \in BookRequests : r.id = None}}
    \cup {[op |-> "update_book", key |-> None, body |-> Some(b)] :
        b \in {r \in BookRequests : r.id = Some(3)}}
    \cup {[op |-> "delete_book", key |-> Some(k), body |-> None] : k \in {1, 3, 6}}

WriteRequests == IF service = "project1" THEN WriteRequests1 ELSE WriteRequests2

\* A task: the request, the handler's position, its locals (the loop index
\* i, the length n that range(len(BOOKS)) took, the identifier find_book_id
\* computed, is_book_changed), whether every record it wrote over or popped
\* was one its key matched, and the outcome.
IdleTask ==
    [op |-> "none", key |-> None, body |-> None, pc |-> "idle", i |-> 0, n |-> 0,
     new_id |-> 0, is_book_changed |-> FALSE, hit |-> TRUE, status |-> 0, error |-> ""]

InHandler(t) == tasks[t].pc \in {"find", "append", "scan", "store", "pop", "return"}

\* Suspends as it would be if every statement of a handler let the loop
\* switch (an await in the loop body, or a plain def run in the thread pool).
Suspends_at_every_statement(pc) == TRUE

\* Whether the statement at pc is an await: no handler has one.
Suspends(pc) == FALSE

\* The event loop may pick another coroutine: none is running, or the one
\* running is suspended at an await.
LoopFree == running = 0 \/ Suspends(tasks[running].pc)

\* A request arrives and its handler coroutine is scheduled.
Receive(t) ==
    /\ tasks[t].pc = "idle"
    /\ \E r \in WriteRequests :
          tasks' = [tasks EXCEPT ![t] =
                      [IdleTask EXCEPT !.op = r.op, !.key = r.key,
                                       !.body = r.body, !.pc = "pending"]]
    /\ UNCHANGED <<service, BOOKS, request, response, running>>

\* The loop starts the handler: its first statement is find_book_id
\* (project2's create), the append (project1's create) or the for loop,
\* whose range(len(BOOKS)) is taken once.
Start(t) ==
    /\ tasks[t].pc = "pending"
    /\ LoopFree
    /\ tasks[t].op = "create_book" => Len(BOOKS) < MaxLen
    /\ running' = t
    /\ tasks' = [tasks EXCEPT ![t].pc = IF tasks[t].op # "create_book" THEN "scan"
                                        ELSE IF service = "project1" THEN "append"
                                        ELSE "find",
                              ![t].i = 1,
                              ![t].n = Len(BOOKS)]
    /\ UNCHANGED <<service, BOOKS, request, response>>

\* The loop runs a statement of a started handler: of the running one, or
\* of another one when the running one is suspended.
Runs(t) == InHandler(t) /\ (running = t \/ LoopFree)

\* After the statement the handler is the running one, until it has ended.
Ran(t) ==
    /\ running' = IF tasks'[t].pc = "done" THEN 0 ELSE t
    /\ UNCHANGED <<service, request, response>>

\* The task's statement ends the handler with this response.
Ends(t, st, err) ==
    [tasks EXCEPT ![t].pc = "done", ![t].status = st, ![t].error = err]

\* The comparison of the loop's `if` on record book: "error" is project1's
\* AttributeError on a record or a body without a title.
TaskMatches(t, book) ==
    IF service = "project2"
    THEN IF Some(book.id) = (IF tasks[t].op = "update_book" THEN tasks[t].body[1].id
                             ELSE tasks[t].key)
         THEN "yes" ELSE "no"
    ELSE IF tasks[t].op = "update_book"
    THEN IF Get(book, "title") = None \/ Get(tasks[t].body[1], "title") = None
         THEN "error"
         ELSE KeyMatches(book, "title", tasks[t].body[1]["title"])
    ELSE KeyMatches(book, "title", tasks[t].key[1])

\* The record an update stores.
StoredBook(t) ==
    IF service = "project2" THEN WithId(tasks[t].body[1], tasks[t].body[1].id[1])
    ELSE tasks[t].body[1]

\* find_book_id(new_book): reads the last record's id.
Find(t) ==
    /\ Runs(t)
    /\ tasks[t].pc = "find"
    /\ tasks' = [tasks EXCEPT ![t].pc = "append",
                              ![t].new_id = find_book_id(BOOKS, tasks[t].body[1]).id]
    /\ UNCHANGED BOOKS
    /\ Ran(t)

\* BOOKS.append(...), then the response (201 in project2, 200 in project1).
AppendBook(t) ==
    /\ Runs(t)
    /\ tasks[t].pc = "append"
    /\ BOOKS' = Append(BOOKS, IF service = "project2"
                              THEN WithId(tasks[t].body[1], tasks[t].new_id)
                              ELSE tasks[t].body[1])
    /\ tasks' = Ends(t, IF service = "project2" THEN 201 ELSE 200, "")
    /\ Ran(t)

\* One iteration of `for i in range(len(BOOKS)): if BOOKS[i]... == ...`.
Scan(t) ==
    LET me == tasks[t]
    IN  /\ Runs(t)
        /\ me.pc = "scan"
        /\ tasks' =
              IF me.i > me.n THEN [tasks EXCEPT ![t].pc = "return"]
              ELSE IF me.i > Len(BOOKS) THEN Ends(t, 500, "IndexError")
              ELSE IF TaskMatches(t, BOOKS[me.i]) = "error"
              THEN Ends(t, 500, "AttributeError")
              ELSE IF TaskMatches(t, BOOKS[me.i]) = "yes"
              THEN [tasks EXCEPT ![t].pc = IF me.op = "update_book" THEN "store" ELSE "pop"]
              ELSE [tasks EXCEPT ![t].i = me.i + 1]
        /\ UNCHANGED BOOKS
        /\ Ran(t)

\* BOOKS[i] = ...: project2 then sets is_book_changed and breaks, project1
\* goes on with the next index.
Store(t) ==
    LET me == tasks[t]
    IN  /\ Runs(t)
        /\ me.pc = "store"
        /\ IF me.i > Len(BOOKS)
           THEN /\ tasks' = Ends(t, 500, "IndexError")
                /\ UNCHANGED BOOKS
           ELSE /\ BOOKS' = [BOOKS EXCEPT ![me.i] = StoredBook(t)]
                /\ tasks' = [tasks EXCEPT
                      ![t].pc = IF service = "project2" THEN "return" ELSE "scan",
                      ![t].i = IF service = "project2" THEN me.i ELSE me.i + 1,
                      ![t].is_book_changed = TRUE,
                      ![t].hit = me.hit /\ TaskMatches(t, BOOKS[me.i]) = "yes"]
        /\ Ran(t)

\* BOOKS.pop(i), then break.
Pop(t) ==
    LET me == tasks[t]
    IN  /\ Runs(t)
        /\ me.pc = "pop"
        /\ IF me.i > Len(BOOKS)
           THEN /\ tasks' = Ends(t, 500, "IndexError")
                /\ UNCHANGED BOOKS
           ELSE /\ BOOKS' = RemoveAt(BOOKS, me.i)
                /\ tasks' = [tasks EXCEPT
                      ![t].pc = "return",
                      ![t].is_book_changed = TRUE,
                      ![t].hit = me.hit /\ TaskMatches(t, BOOKS[me.i]) = "yes"]
        /\ Ran(t)

\* The end of the handler: project2 raises HTTPException(404) when
\* is_book_changed is False and answers 204 otherwise; project1 returns
\* None, a 200.
Return(t) ==
    /\ Runs(t)
    /\ tasks[t].pc = "return"
    /\ tasks' = Ends(t, IF service = "project1" THEN 200
                        ELSE IF tasks[t].is_book_changed THEN 204 ELSE 404, "")
    /\ UNCHANGED BOOKS
    /\ Ran(t)

InitAsync ==
    /\ \/ service = "project1" /\ BOOKS = SeedBooks1
       \/ service = "project2" /\ BOOKS = SeedBooks2
    /\ request = NoRequest
    /\ response = NoResponse
    /\ tasks = [t \in TaskIds |-> IdleTask]
    /\ running = 0

NextAsync ==
    \E t \in TaskIds :
        \/ Receive(t)
        \/ Start(t)
        \/ Find(t)
        \/ AppendBook(t)
        \/ Scan(t)
        \/ Store(t)
        \/ Pop(t)
        \/ Return(t)

SpecAsync == InitAsync /\ [][NextAsync]_vars

\* ================================================================== claims

IsProject1 == service = "project1"
IsProject2 == service = "project2"

\* The identifiers of a project2 list.
Ids(books) == {books[i].id : i \in 1..Len(books)}
MaxOf(S) == CHOOSE m \in S : \A x \in S : x <= m

\* The record a project2 request body describes, with identifier id.
BodyWithId(body, id) == [body EXCEPT !.id = id]

\* A project1 record has this title, compared case-insensitively.
TitleIs(book, t) == "title" \in DOMAIN book /\ CaseFold(book["title"]) = CaseFold(t)

\* ------------------------------------------------------------------- C1
\* C1: in project2 a create request appends exactly one record, equal to the
\* request's fields except for its identifier, which is 1 plus the largest
\* identifier in the list before the request, or 1 when the list was empty,
\* whatever id the body carries.
C1_CreateAssignsNextId ==
    [][(IsProject2 /\ response'.handler = "create_book") =>
          /\ Len(BOOKS') = Len(BOOKS) + 1
          /\ SubSeq(BOOKS', 1, Len(BOOKS)) = BOOKS
          /\ BOOKS'[Len(BOOKS')] =
                BodyWithId(request'.body[1],
                           IF BOOKS = <<>> THEN 1 ELSE 1 + MaxOf(Ids(BOOKS)))]_vars

\* A create on the emptied list, with id 3 in the body, stored identifier 1.
C1_Witness ==
    /\ IsProject2
    /\ response.handler = "create_book"
    /\ request.body[1].id = Some(3)
    /\ Len(BOOKS) = 1
    /\ BOOKS[1].id = 1

\* ------------------------------------------------------------------- C2
\* C2: in project2 no two records of the list have the same identifier, in
\* every state reachable from the seed by create, update and delete.
C2_UniqueIds ==
    IsProject2 =>
        \A i, j \in 1..Len(BOOKS) : i # j => BOOKS[i].id # BOOKS[j].id

\* After creates, a delete and an update: a seed record is gone, a created
\* record is there, and the last request was an update that replaced one.
C2_Witness ==
    /\ IsProject2
    /\ response.handler = "update_book"
    /\ response.status = 204
    /\ 7 \in Ids(BOOKS)
    /\ 2 \notin Ids(BOOKS)
    /\ \E i \in 1..Len(BOOKS) : BOOKS[i].id = 3 /\ BOOKS[i].title = "A new book"

\* ------------------------------------------------------------------- C3
\* C3: in project2 an update request whose id is the id of a record answers
\* 204 and replaces that record, at its position, by the request's fields;
\* every other position and the length are unchanged.
C3_UpdateReplacesInPlace ==
    [][(IsProject2 /\ response'.handler = "update_book") =>
          \A i \in 1..Len(BOOKS) :
              Some(BOOKS[i].id) = request'.body[1].id =>
                  /\ response'.status = 204
                  /\ Len(BOOKS') = Len(BOOKS)
                  /\ BOOKS'[i] = BodyWithId(request'.body[1], BOOKS[i].id)
                  /\ \A j \in 1..Len(BOOKS) : j # i => BOOKS'[j] = BOOKS[j]]_vars

\* An update of record 3, in the middle of the list, has been applied.
C3_Witness ==
    /\ IsProject2
    /\ response.handler = "update_book"
    /\ response.status = 204
    /\ Len(BOOKS) >= 4
    /\ BOOKS[3].id = 3
    /\ BOOKS[3].title = "A new book"
    /\ BOOKS[4].title = "Book4"

\* ------------------------------------------------------------------- C4
\* The key of a delete request matches record i of the list.
DeleteMatches(req, books, i) ==
    IF IsProject1 THEN TitleIs(books[i], req.path[3])
    ELSE Some(books[i].id) = ParseInt(req.path[2])

\* C4: a delete request (with a valid key), in both services: when some
\* record matches, the list afterwards is the list before with exactly one
\* matching record removed; when none matches, the list is unchanged and the
\* response is 404.
C4_DeleteOneOrNotFound ==
    [][(response'.handler = "delete_book" /\ response'.status # 422) =>
          IF \E i \in 1..Len(BOOKS) : DeleteMatches(request', BOOKS, i)
          THEN \E i \in 1..Len(BOOKS) :
                  /\ DeleteMatches(request', BOOKS, i)
                  /\ BOOKS' = RemoveAt(BOOKS, i)
          ELSE BOOKS' = BOOKS /\ response'.status = 404]_vars

\* ------------------------------------------------------------------- C5
\* The key of a lookup, update or delete request matches record i.
KeyOfRequestMatches(req, h, books, i) ==
    IF IsProject1
    THEN CASE h = "get_books_by_title" -> TitleIs(books[i], req.path[2])
           [] h = "update_book" ->
                  /\ "title" \in DOMAIN req.body[1]
                  /\ TitleIs(books[i], req.body[1]["title"])
           [] OTHER -> TitleIs(books[i], req.path[3])
    ELSE CASE h = "update_book" -> Some(books[i].id) = req.body[1].id
           [] OTHER -> Some(books[i].id) = ParseInt(req.path[2])

\* C5: a lookup by key, an update or a delete whose key matches no record
\* is answered 404, in both services.
C5_AbsentKeyIsNotFound ==
    [][(/\ response'.handler \in {"get_books_by_title", "read_book_by_id",
                                  "update_book", "delete_book"}
        /\ response'.status # 422
        /\ \A i \in 1..Len(BOOKS) :
              ~KeyOfRequestMatches(request', response'.handler, BOOKS, i))
          => response'.status = 404]_vars

\* ------------------------------------------------------------------- C6
\* The records of books that satisfy the filter of request req to handler h.
CategoryIs(book, c) == "category" \in DOMAIN book /\ CaseFold(book["category"]) = CaseFold(c)
AuthorIs(book, a) == "author" \in DOMAIN book /\ CaseFold(book["author"]) = CaseFold(a)

Satisfying(req, h, books) ==
    CASE h = "get_all_book" ->
             IF req.query = None THEN books
             ELSE SelectSeq(books, LAMBDA b : CategoryIs(b, req.query[1]))
      [] h = "get_books_by_author" ->
             SelectSeq(books, LAMBDA b : AuthorIs(b, req.path[3]))
      [] h = "read_book_by_rating" ->
             SelectSeq(books, LAMBDA b : b.rating = req.query[1])
      [] OTHER ->
             SelectSeq(books, LAMBDA b : b.published_year = req.query[1])

\* C6: a filter endpoint answers with exactly the records of the list that
\* satisfy its predicate, in list order (case-insensitive on category and
\* author in project1, integer equality on rating and year in project2; the
\* whole list only when no category is supplied), and leaves the list as it
\* was.
C6_FilterReturnsMatching ==
    [][(response'.handler \in {"get_all_book", "get_books_by_author",
                               "read_book_by_rating", "read_book_by_published_year"})
          => /\ BOOKS' = BOOKS
             /\ response'.kind = "list"
             /\ response'.body = Satisfying(request', response'.handler, BOOKS)]_vars

FirstTitled(books, t) ==
    IF \E i \in 1..Len(books) : TitleIs(books[i], t)
    THEN CHOOSE i \in 1..Len(books) :
            TitleIs(books[i], t) /\ \A j \in 1..(i - 1) : ~TitleIs(books[j], t)
    ELSE 0

\* C9: in project1 an update request replaces every record whose title
\* matches the body's title case-insensitively, leaves the others and the
\* length unchanged; a delete request removes only the first matching record.
C9_UpdateAllDeleteFirst ==
    [][/\ (IsProject1 /\ response'.handler = "update_book"
                      /\ "title" \in DOMAIN request'.body[1]) =>
              /\ Len(BOOKS') = Len(BOOKS)
              /\ \A i \in 1..Len(BOOKS) :
                    BOOKS'[i] = IF TitleIs(BOOKS[i], request'.body[1]["title"])
                                THEN request'.body[1] ELSE BOOKS[i]
       /\ (IsProject1 /\ response'.handler = "delete_book"
                      /\ FirstTitled(BOOKS, request'.path[3]) # 0) =>
              BOOKS' = RemoveAt(BOOKS, FirstTitled(BOOKS, request'.path[3]))]_vars

\* ------------------------------------------------------------------ C10
\* The last request was a successful delete of an identifier larger than
\* every identifier left: the record with the highest identifier.
DeletedHighest ==
    /\ IsProject2
    /\ response.handler = "delete_book"
    /\ response.status = 204
    /\ \A x \in Ids(BOOKS) : x < ParseInt(request.path[2])[1]

\* C10 as stated: the create request that follows the deletion of the record
\* with the highest identifier assigns that same identifier.
C10_ReusesDeletedId ==
    [][(DeletedHighest /\ response'.handler = "create_book") =>
          BOOKS'[Len(BOOKS')].id = ParseInt(request.path[2])[1]]_vars

\* C10 amended: that create request assigns 1 plus the highest identifier
\* left (1 on an empty list), which is never above the deleted identifier
\* and is the deleted identifier exactly when the identifier just below it
\* is still in the list (or the list is empty and it was 1).
C10_ReusesIdAtOrBelowDeleted ==
    [][(DeletedHighest /\ response'.handler = "create_book") =>
          LET d == ParseInt(request.path[2])[1]
              new == BOOKS'[Len(BOOKS')].id
          IN  /\ new = (IF BOOKS = <<>> THEN 1 ELSE 1 + MaxOf(Ids(BOOKS)))
              /\ new <= d
              /\ new = d <=> (d - 1 \in Ids(BOOKS) \/ (BOOKS = <<>> /\ d = 1))]_vars

\* A created record holds identifier 5, which a seed record held, and it is
\* the highest: records 5 and 6 were deleted before the create.
C10_Witness ==
    /\ IsProject2
    /\ response.handler = "create_book"
    /\ Len(BOOKS) = 5
    /\ BOOKS[5].id = 5
    /\ BOOKS[5].title = "A new book"
    /\ BOOKS[4].title = "Book4"

\* ------------------------------------------------------------------- C8
\* C8 as stated: write requests handled concurrently interleave (which is
\* what would lose an update or leave a delete with a stale index): while
\* one handler is between two of its statements, the handler of another
\* pending write request can start.
C8_HandlersInterleave ==
    \A t, u \in TaskIds :
        (InHandler(t) /\ tasks[u].pc = "pending" /\ Len(BOOKS) < MaxLen)
            => ENABLED Start(u)

\* C8 amended: write requests in flight together do not corrupt the list:
\* no handler indexes past the end of the list, every update and delete acts
\* only on records its key matched, and project2's identifiers stay unique
\* (a handler runs from its first statement to its response with no other
\* handler in between).
C8_NoCorruption ==
    /\ \A t \in TaskIds : tasks[t].error # "IndexError" /\ tasks[t].hit
    /\ IsProject2 => \A i, j \in 1..Len(BOOKS) : i # j => BOOKS[i].id # BOOKS[j].id

\* Two deletes of record 6 in flight together in project2: one has matched
\* it and is about to pop, the other is pending.
C8_Witness ==
    /\ IsProject2
    /\ tasks[1].op = "delete_book" /\ tasks[1].key = Some(6) /\ tasks[1].pc = "pop"
    /\ tasks[2].op = "delete_book" /\ tasks[2].key = Some(6) /\ tasks[2].pc = "pending"

====
